---- MODULE Spec2Model ----
(***************************************************************************)
(* Model of the QM feedback system (src/main.py, src/db.py): the three     *)
(* form-submission handlers with their validation and persistence blocks,  *)
(* the shared-secret middleware, and the reference-list loaders.           *)
(*                                                                         *)
(* A Python str is a sequence of characters; a character is a one-letter   *)
(* TLA+ string, except Sup2, which stands for U+00B2 SUPERSCRIPT TWO.      *)
(***************************************************************************)
EXTENDS Integers, Sequences, FiniteSets, TLC

\* ------------------------------------------------------------------------
\* Python built-ins used by the handlers
\* ------------------------------------------------------------------------

AsciiDigits == {"0", "1", "2", "3", "4", "5", "6", "7", "8", "9"}

\* U+00B2: str.isdigit() is True for it, str.isdecimal() is False, int() raises.
Sup2 == "sup2"

\* Characters c with c.isdigit() (Numeric_Type Digit or Decimal).
IsDigitChar(c) == c \in AsciiDigits \cup {Sup2}

\* Characters int() and the \d of strptime's patterns accept (category Nd).
IsDecimalChar(c) == c \in AsciiDigits

\* str.isdigit(): non-empty and every character is a digit.
isdigit(s) == Len(s) > 0 /\ \A i \in 1..Len(s) : IsDigitChar(s[i])

DigitValue(c) ==
    CASE c = "0" -> 0 [] c = "1" -> 1 [] c = "2" -> 2 [] c = "3" -> 3
      [] c = "4" -> 4 [] c = "5" -> 5 [] c = "6" -> 6 [] c = "7" -> 7
      [] c = "8" -> 8 [] c = "9" -> 9

RECURSIVE DecimalValue(_)
DecimalValue(s) ==
    IF Len(s) = 0 THEN 0
    ELSE 10 * DecimalValue(SubSeq(s, 1, Len(s) - 1)) + DigitValue(s[Len(s)])

\* int(s) for a string s that passed isdigit(): [raises |-> FALSE, value |-> n],
\* or [raises |-> TRUE] (a ValueError) when a character is a digit that is no
\* decimal.
int(s) ==
    IF Len(s) = 0 \/ \E i \in 1..Len(s) : ~IsDecimalChar(s[i])
    THEN [raises |-> TRUE, value |-> 0]
    ELSE [raises |-> FALSE, value |-> DecimalValue(s)]

IsLeap(y) == (y % 4 = 0 /\ y % 100 # 0) \/ y % 400 = 0

DaysInMonth(y, m) ==
    IF m = 2 THEN (IF IsLeap(y) THEN 29 ELSE 28)
    ELSE IF m \in {4, 6, 9, 11} THEN 30 ELSE 31

NoDate == <<0, 0, 0>>

\* datetime.strptime(s, "%y%m%d").date() for a six-character s:
\* [raises |-> FALSE, date |-> <<year, month, day>>], or [raises |-> TRUE] (a
\* ValueError).  %y maps 00..68 to 2000..2068 and 69..99 to 1969..1999; month
\* and day must be two decimal digits each and name a day of the calendar.
strptime(s) ==
    IF Len(s) # 6 \/ \E i \in 1..Len(s) : ~IsDecimalChar(s[i])
    THEN [raises |-> TRUE, date |-> NoDate]
    ELSE LET yy == DecimalValue(SubSeq(s, 1, 2))
             mm == DecimalValue(SubSeq(s, 3, 4))
             dd == DecimalValue(SubSeq(s, 5, 6))
             year == IF yy <= 68 THEN 2000 + yy ELSE 1900 + yy
         IN  IF mm \in 1..12 /\ dd >= 1 /\ dd <= DaysInMonth(year, mm)
             THEN [raises |-> FALSE, date |-> <<year, mm, dd>>]
             ELSE [raises |-> TRUE, date |-> NoDate]

\* date.__gt__: a > b.
DateAfter(a, b) ==
    \/ a[1] > b[1]
    \/ a[1] = b[1] /\ a[2] > b[2]
    \/ a[1] = b[1] /\ a[2] = b[2] /\ a[3] > b[3]

\* ------------------------------------------------------------------------
\* Job-reference validation of the two NK handlers
\* ------------------------------------------------------------------------

SeqLen == 5
DateLen == 6
MinYear == 25

\* The result of a validation: the verdict ("ok", one of the five errors, or
\* "Unhandled" for an exception no handler catches), the checks evaluated in
\* order, and the reference built on acceptance.
Verdict(v, ev, nk) == [verdict |-> v, evaluated |-> ev, nk_nummer |-> nk]

\* f"NK {nk_date} {nk_sequence}"
FormatNk(nk_date, nk_sequence) == <<"N", "K", " ">> \o nk_date \o <<" ">> \o nk_sequence

submit_rd_validate(nk_date, nk_sequence, now) ==
    IF Len(nk_sequence) # SeqLen \/ ~isdigit(nk_sequence)
    THEN Verdict("InvalidSequence", <<"sequence">>, <<>>)
    ELSE IF Len(nk_date) # DateLen \/ ~isdigit(nk_date)
    THEN Verdict("InvalidDateFormat", <<"sequence", "date_format">>, <<>>)
    ELSE IF int(SubSeq(nk_date, 1, 2)).raises
    THEN Verdict("Unhandled", <<"sequence", "date_format", "year">>, <<>>)
    ELSE IF int(SubSeq(nk_date, 1, 2)).value < MinYear
    THEN Verdict("YearTooOld", <<"sequence", "date_format", "year">>, <<>>)
    ELSE LET input_date == strptime(nk_date) IN
         IF input_date.raises
         THEN Verdict("InvalidCalendarDate",
                      <<"sequence", "date_format", "year", "calendar">>, <<>>)
         ELSE IF DateAfter(input_date.date, now)
         THEN Verdict("FutureDate",
                      <<"sequence", "date_format", "year", "calendar", "future">>, <<>>)
         ELSE Verdict("ok",
                      <<"sequence", "date_format", "year", "calendar", "future">>,
                      FormatNk(nk_date, nk_sequence))

\* submit_lst with the future-date test written >= instead of >.
submit_lst_validate_RejectsToday(nk_date, nk_sequence, now) ==
    LET v == submit_rd_validate(nk_date, nk_sequence, now) IN
    IF v.verdict = "ok" /\ strptime(nk_date).date = now
    THEN Verdict("FutureDate", v.evaluated, <<>>)
    ELSE v

submit_lst_validate(nk_date, nk_sequence, now) ==
    IF Len(nk_sequence) # SeqLen \/ ~isdigit(nk_sequence)
    THEN Verdict("InvalidSequence", <<"sequence">>, <<>>)
    ELSE IF Len(nk_date) # DateLen \/ ~isdigit(nk_date)
    THEN Verdict("InvalidDateFormat", <<"sequence", "date_format">>, <<>>)
    ELSE IF int(SubSeq(nk_date, 1, 2)).raises
    THEN Verdict("Unhandled", <<"sequence", "date_format", "year">>, <<>>)
    ELSE IF int(SubSeq(nk_date, 1, 2)).value < MinYear
    THEN Verdict("YearTooOld", <<"sequence", "date_format", "year">>, <<>>)
    ELSE LET input_date == strptime(nk_date) IN
         IF input_date.raises
         THEN Verdict("InvalidCalendarDate",
                      <<"sequence", "date_format", "year", "calendar">>, <<>>)
         ELSE IF DateAfter(input_date.date, now)
         THEN Verdict("FutureDate",
                      <<"sequence", "date_format", "year", "calendar", "future">>, <<>>)
         ELSE Verdict("ok",
                      <<"sequence", "date_format", "year", "calendar", "future">>,
                      FormatNk(nk_date, nk_sequence))

\* ------------------------------------------------------------------------
\* Order number and RMC code of the hospital handler
\* ------------------------------------------------------------------------

MaxOrderDigits == 6
RmzWidth == 3

\* ' - '
Separator == <<" ", "-", " ">>

\* str.find(sep, i): the first index >= i at which sep occurs in s, 0 if none.
RECURSIVE find(_, _, _)
find(s, sep, i) ==
    IF i + Len(sep) - 1 > Len(s) THEN 0
    ELSE IF SubSeq(s, i, i + Len(sep) - 1) = sep THEN i
    ELSE find(s, sep, i + 1)

\* rmz.split(' - ')[0] if ' - ' in rmz else rmz
rmz_code(rmz) ==
    IF find(rmz, Separator, 1) # 0
    THEN SubSeq(rmz, 1, find(rmz, Separator, 1) - 1)
    ELSE rmz

\* The zone code cut to the field's width.
rjust0_Truncates(s) ==
    IF Len(s) >= RmzWidth THEN SubSeq(s, 1, RmzWidth)
    ELSE [i \in 1..(RmzWidth - Len(s)) |-> "0"] \o s

\* f"{s:0>3}": s right-aligned in a field of width 3 filled with '0'.
rjust0(s) ==
    IF Len(s) >= RmzWidth THEN s
    ELSE [i \in 1..(RmzWidth - Len(s)) |-> "0"] \o s

\* f"{rmz_code:0>3}{rmc_bewusstsein}{rmc_atmung}{rmc_kreislauf}{rmc_verletzung}{rmc_neurologie}{rmc_schmerz}"
rmc_code(rmz, rmc_bewusstsein, rmc_atmung, rmc_kreislauf, rmc_verletzung, rmc_neurologie, rmc_schmerz) ==
    rjust0(rmz_code(rmz)) \o rmc_bewusstsein \o rmc_atmung \o rmc_kreislauf
        \o rmc_verletzung \o rmc_neurologie \o rmc_schmerz

submit_klinik_validate(auftragsnummer) ==
    IF Len(auftragsnummer) > MaxOrderDigits \/ ~isdigit(auftragsnummer)
    THEN Verdict("InvalidOrderNumber", <<"order_number">>, <<>>)
    ELSE Verdict("ok", <<"order_number">>, <<>>)

\* ------------------------------------------------------------------------
\* Persistence block and responses
\* ------------------------------------------------------------------------

\* The calls of a try block, in order: get_db_connection(), conn.cursor(),
\* cur.execute(CREATE TABLE IF NOT EXISTS), cur.execute(INSERT), conn.commit(),
\* cur.close(), conn.close().
PersistSteps ==
    <<"connect", "cursor", "create", "insert", "commit", "cur_close", "conn_close">>

\* fail_at: the step that raises, 0 when none does.
FailPoints == 0..Len(PersistSteps)

\* The outcomes of the persistence collaborator a handler can meet: any, once
\* it reaches the try block; none to choose from when it returned before.
Outcomes(reached) == IF reached THEN FailPoints ELSE {0}

Call(op, table, args) == [op |-> op, table |-> table, args |-> args]

\* The try/except block: the calls issued before control leaves the block,
\* whether the except branch printed an error, and whether the row was
\* committed.  args_raise: evaluating the INSERT's argument tuple raises.
Persist(table, args, args_raise, fail_at) ==
    LET last == IF fail_at \in 1..3 THEN fail_at
                ELSE IF args_raise THEN 3
                ELSE IF fail_at = 0 THEN Len(PersistSteps)
                ELSE fail_at
    IN  [calls |-> [i \in 1..last |->
                      Call(PersistSteps[i], table,
                           IF PersistSteps[i] = "insert" THEN args ELSE <<>>)],
         logged |-> fail_at # 0 \/ args_raise,
         committed |-> ~args_raise /\ (fail_at = 0 \/ fail_at > 5)]

NoPersist == [calls |-> <<>>, logged |-> FALSE, committed |-> FALSE]

\* templates.TemplateResponse(template, {..., "error": message}); the message
\* is named by the error it reports.
ErrorPage(template, error) ==
    [status |-> 200, template |-> template, error |-> error, source |-> "none"]

\* templates.TemplateResponse("success.html", {..., "source": source})
SuccessPage(source) ==
    [status |-> 200, template |-> "success.html", error |-> "none", source |-> source]

\* An exception leaving the handler: the framework answers 500.
ServerError ==
    [status |-> 500, template |-> "none", error |-> "Unhandled", source |-> "none"]

NoResponse == [status |-> 0, template |-> "none", error |-> "none", source |-> "none"]

\* An except branch that logs and raises again.
AfterPersist_Reraises(p, source) ==
    IF p.logged THEN ServerError ELSE SuccessPage(source)

\* What follows the try/except block: the except branch has swallowed any
\* exception, and the handler returns the success page.
AfterPersist(p, source) == SuccessPage(source)

\* The future-date branch without its return.
ReachesPersist_NoFutureReturn(v) == v.verdict \in {"ok", "FutureDate"}

\* The early returns: the persistence block is reached only past all of them.
ReachesPersist(v) == v.verdict = "ok"

\* ------------------------------------------------------------------------
\* Shared-secret middleware
\* ------------------------------------------------------------------------

\* A missing cookie or query parameter: dict.get() returns None.
None == "<None>"

SHARED_SECRET == "change-me"

P_root == <<"/">>
P_impressum == <<"/", "i", "m", "p", "r", "e", "s", "s", "u", "m">>
P_datenschutz == <<"/", "d", "a", "t", "e", "n", "s", "c", "h", "u", "t", "z">>
P_klinik == <<"/", "k", "l", "i", "n", "i", "k">>
P_leitstelle == <<"/", "l", "e", "i", "t", "s", "t", "e", "l", "l", "e">>
P_rd == <<"/", "r", "d">>
P_rd_submit == <<"/", "r", "d", "/", "s", "u", "b", "m", "i", "t">>
P_klinik_submit == <<"/", "k", "l", "i", "n", "i", "k", "/", "s", "u", "b", "m", "i", "t">>
P_leitstelle_submit == <<"/", "l", "e", "i", "t", "s", "t", "e", "l", "l", "e", "/", "s", "u", "b", "m", "i", "t">>
P_favicon == <<"/", "f", "a", "v", "i", "c", "o", "n", ".", "i", "c", "o">>
P_health == <<"/", "h", "e", "a", "l", "t", "h">>
P_robots == <<"/", "r", "o", "b", "o", "t", "s", ".", "t", "x", "t">>
P_static == <<"/", "s", "t", "a", "t", "i", "c">>
P_static_css == <<"/", "s", "t", "a", "t", "i", "c", "/", "a", ".", "c", "s", "s">>
P_staticx == <<"/", "s", "t", "a", "t", "i", "c", "x">>
P_unknown == <<"/", "a", "d", "m", "i", "n">>

EXEMPT_PATHS == {P_favicon, P_health, P_robots}

EXEMPT_PREFIXES == {P_static}

\* str.startswith(prefix)
startswith(s, prefix) ==
    Len(s) >= Len(prefix) /\ SubSeq(s, 1, Len(prefix)) = prefix

\* The routes the decorators and the mount register: the handler serving
\* (method, path), "405" when the path is routed for another method only,
\* "404" when nothing is routed there.
Router(method, path) ==
    LET GetRoutes == {<<P_root, "read_root">>, <<P_impressum, "impressum">>,
                      <<P_datenschutz, "datenschutz">>, <<P_robots, "robots">>,
                      <<P_rd, "form_rd">>, <<P_klinik, "form_klinik">>,
                      <<P_leitstelle, "form_lst">>}
        PostRoutes == {<<P_rd_submit, "submit_rd">>,
                       <<P_klinik_submit, "submit_klinik">>,
                       <<P_leitstelle_submit, "submit_lst">>}
        mine == IF method = "GET" THEN GetRoutes ELSE PostRoutes
        other == IF method = "GET" THEN PostRoutes ELSE GetRoutes
    IN  IF \E r \in mine : r[1] = path
        THEN (CHOOSE r \in mine : r[1] = path)[2]
        ELSE IF \E r \in other : r[1] = path THEN "405"
        ELSE IF startswith(path, P_static \o <<"/">>)
        THEN (IF method = "GET" THEN "static" ELSE "405")
        ELSE "404"

\* A response: status, the Location of a redirect, the shared_secret cookie it
\* sets, and the handler that produced it ("none": the middleware itself).
Response(status, location, cookie, handler) ==
    [status |-> status, location |-> location, set_cookie |-> cookie,
     handler |-> handler]

\* await call_next(request): the router runs the handler routed there.
call_next(req) ==
    LET h == Router(req.method, req.path) IN
    Response(IF h = "404" THEN 404 ELSE IF h = "405" THEN 405 ELSE 200,
             <<>>, None, IF h \in {"404", "405"} THEN "none" ELSE h)

\* A test for the presence of a token instead of its value.
TokenMatches_AnyToken(token) == token # None

\* token == SHARED_SECRET
TokenMatches(token) == token = SHARED_SECRET

\* The middleware, from the request to the response it returns.
enforce_shared_secret_response(req) ==
    IF req.path \in EXEMPT_PATHS
    THEN (IF req.path = P_health THEN Response(200, <<>>, None, "none")
          ELSE call_next(req))
    ELSE IF \E prefix \in EXEMPT_PREFIXES : startswith(req.path, prefix)
    THEN call_next(req)
    ELSE IF TokenMatches(req.cookie)
    THEN call_next(req)
    ELSE IF TokenMatches(req.key)
    THEN (IF req.method = "GET"
          THEN Response(303, req.path, SHARED_SECRET, "none")
          ELSE [call_next(req) EXCEPT !.set_cookie = SHARED_SECRET])
    ELSE Response(403, <<>>, None, "none")

\* ------------------------------------------------------------------------
\* Reference-list loaders
\* ------------------------------------------------------------------------

\* A file on disk: whether open() finds it, its rows (the rows of a CSV file
\* as the csv module splits them, the lines of a text file), and bad_at, the
\* row whose reading raises (a decoding error, a csv.Error), 0 when none does.
File(exists, rows, bad_at) == [exists |-> exists, rows |-> rows, bad_at |-> bad_at]

\* The for loop of load_rmz_list from row i on, rmz_list being acc so far; a
\* row whose reading raises ends the loop in the except branch, acc as it is.
RECURSIVE rmz_loop(_, _, _)
rmz_loop(file, i, acc) ==
    IF i > Len(file.rows) \/ file.bad_at = i THEN acc
    ELSE LET row == file.rows[i] IN
         rmz_loop(file, i + 1,
                  IF Len(row) >= 2
                  THEN Append(acc, row[1] \o Separator \o row[2])
                  ELSE acc)

load_rmz_list(file) ==
    IF ~file.exists \/ file.bad_at = 1 THEN <<>>
    ELSE rmz_loop(file, 2, <<>>)

Rufname == <<"R", "u", "f", "n", "a", "m", "e">>
OptaRufname == <<"O", "P", "T", "A", "-", "R", "u", "f", "n", "a", "m", "e">>

\* str.strip()
RECURSIVE strip(_)
strip(s) ==
    IF Len(s) = 0 THEN s
    ELSE IF s[1] = " " THEN strip(Tail(s))
    ELSE IF s[Len(s)] = " " THEN strip(SubSeq(s, 1, Len(s) - 1))
    ELSE s

\* (row.get(name) or "") for the dict a DictReader builds of a row: the value
\* under the last column of that name, "" when the row is too short (restval
\* None) or no column has the name.
row_get(fieldnames, row, name) ==
    LET J == {j \in 1..Len(fieldnames) : fieldnames[j] = name} IN
    IF J = {} THEN <<>>
    ELSE LET j == CHOOSE k \in J : \A m \in J : m <= k IN
         IF j <= Len(row) THEN row[j] ELSE <<>>

\* The for loop of load_funkrufnamen from row i on; DictReader skips empty
\* rows.
RECURSIVE funk_loop(_, _, _)
funk_loop(file, i, acc) ==
    IF i > Len(file.rows) \/ file.bad_at = i THEN acc
    ELSE LET row == file.rows[i]
             rufname == strip(row_get(file.rows[1], row, Rufname))
             opta == strip(row_get(file.rows[1], row, OptaRufname))
         IN  funk_loop(file, i + 1,
                       IF Len(row) > 0 /\ Len(rufname) > 0
                       THEN Append(acc, [rufname |-> rufname,
                                         opta |-> IF Len(opta) > 0 THEN opta
                                                  ELSE rufname])
                       ELSE acc)

Sentinel == [rufname |-> <<"M", "I", "S", "S", "I", "N", "G">>, opta |-> <<"F", "e", "h", "l", "e", "n", "d">>]

load_funkrufnamen(file) ==
    LET funkrufnamen == IF ~file.exists \/ file.bad_at = 1 THEN <<>>
                        ELSE funk_loop(file, 2, <<>>)
    IN  IF funkrufnamen = <<>> THEN <<Sentinel>> ELSE funkrufnamen

\* str.split(";"): the fields of s from index i on, cur being the field begun.
RECURSIVE split(_, _, _)
split(s, i, cur) ==
    IF i > Len(s) THEN <<cur>>
    ELSE IF s[i] = ";" THEN <<cur>> \o split(s, i + 1, <<>>)
    ELSE split(s, i + 1, Append(cur, s[i]))

\* The for loop of load_icd_codes from line i on.
RECURSIVE icd_loop(_, _, _)
icd_loop(file, i, acc) ==
    IF i > Len(file.rows) \/ file.bad_at = i THEN acc
    ELSE LET parts == split(strip(file.rows[i]), 1, <<>>) IN
         icd_loop(file, i + 1,
                  IF Len(parts) >= 9
                  THEN Append(acc, parts[7] \o Separator \o parts[9])
                  ELSE acc)

load_icd_codes(file) ==
    IF ~file.exists THEN <<>>
    ELSE icd_loop(file, 1, <<>>)

\* The files the loaders can meet.
MaxFileRows == 3

RmzRows ==
    {<<>>, << <<"7">> >>, << <<"7">>, <<"A">> >>,
     << <<"1", "2">>, <<"B">>, <<"x">> >>}

FunkRows ==
    {<<>>, <<Rufname, OptaRufname>>, <<OptaRufname>>,
     << <<" ", "R", "1", " ">> >>, << <<"R", "2">>, <<"F", "2">> >>,
     << <<" ">>, <<"F", "3">> >>}

IcdLines ==
    {<<"a", ";", "b", ";", "c", ";", "d", ";", "e", ";", "f", ";", "G", ";", "h">>,
     <<"a", ";", "b", ";", "c", ";", "d", ";", "e", ";", "f", ";", "G", ";", "h", ";", "I">>,
     <<" ", "a", ";", "b", ";", "c", ";", "d", ";", "e", ";", "f", ";", "H", ";", "h", ";", "J", ";", "k", " ">>}

RECURSIVE SeqsUpTo(_, _)
SeqsUpTo(S, n) ==
    IF n = 0 THEN {<<>>}
    ELSE LET shorter == SeqsUpTo(S, n - 1) IN
         shorter \cup {Append(q, x) : q \in shorter, x \in S}

Files(Rows) ==
    {File(FALSE, <<>>, 0)}
        \cup {f \in {File(TRUE, rows, bad) :
                        rows \in SeqsUpTo(Rows, MaxFileRows),
                        bad \in 0..(MaxFileRows + 1)} :
                 f.bad_at <= Len(f.rows) + 1}

\* ------------------------------------------------------------------------
\* Submissions: the inputs a client can post.  Every field here is a required
\* Form(...) field: the framework answers 422 itself when one is missing or
\* empty, so a handler never sees an empty string.  The fields a handler only
\* passes on to the INSERT (rettungsmittel, stichwort_check, sna_anpassung,
\* icd_1..3, mst, kommentar) take part in no test and are left out.
\* ------------------------------------------------------------------------

YearInputs ==
    {<<"2", "4">>, <<"2", "5">>, <<"2", "8">>, <<"6", "8">>, <<"6", "9">>,
     <<Sup2, "5">>, <<"2", "a">>}

MonthInputs ==
    {<<"0", "2">>, <<"0", "6">>, <<"1", "2">>, <<"1", "3">>, <<"0", Sup2>>}

DayInputs ==
    {<<"0", "0">>, <<"0", "1">>, <<"2", "9">>, <<"3", "0">>, <<"3", "1">>}

DateInputs ==
    {y \o m \o d : y \in YearInputs, m \in MonthInputs, d \in DayInputs}
        \cup {<<"2", "5", "0", "6", "1">>, <<"2", "5", "0", "6", "0", "1", "0">>,
              <<"x">>}

SequenceInputs ==
    {<<"0", "0", "0", "0", "7">>, <<"1", "2", "3", "4", "5", "6">>, <<"1", "2", "3", "4", "a">>,
     <<"1", "2", "3", "4", Sup2>>, <<"1", "2", "3", "4">>}

\* datetime.now().date()
Todays == {<<2025, 6, 1>>, <<2029, 3, 1>>}

OrderInputs ==
    {<<"0">>, <<"7">>, <<"0", "0", "7">>, <<"1", "2", "3", "4", "5", "6">>,
     <<"1", "2", "3", "4", "5", "6", "7">>, <<"1", "2", "a">>, <<Sup2>>,
     <<"1", Sup2>>}

RmzInputs ==
    {<<"7", " ", "-", " ", "A">>, <<"1", "2", " ", "-", " ", "B">>,
     <<"1", "2", "3", " ", "-", " ", "C", " ", "-", " ", "D">>,
     <<"1", "2", "3", "4", "5", " ", "-", " ", "E">>,
     <<"7">>, <<" ", "-", " ", "A">>, <<"a", "-", "b">>,
     <<"1", "2", "3", "4">>}

\* rmc_bewusstsein, rmc_atmung, rmc_kreislauf, rmc_verletzung, rmc_neurologie,
\* rmc_schmerz
AnswerInputs ==
    {<< <<"1">>, <<"2">>, <<"1">>, <<"1">>, <<"3">>, <<"2">> >>,
     << <<"1">>, <<"1">>, <<"1">>, <<"1">>, <<"1">>, <<"1">> >>,
     << <<"1">>, <<"2">>, <<"3">>, <<"4">>, <<"5">>, <<"6">> >>,
     << <<"1", "0">>, <<"2">>, <<"3">>, <<"x">>, <<"5">>, <<"6">> >>}

MaxRows == 1

\* ------------------------------------------------------------------------
\* State
\* ------------------------------------------------------------------------

VARIABLES
    pc,         \* "idle", "received" (form bound, handler about to run), "done"
    route,      \* the path of the request being served
    form,       \* the form fields of the request
    today,      \* datetime.now().date() during the request
    verdict,    \* outcome of the handler's validation
    evaluated,  \* the checks the handler evaluated, in order
    built,      \* nk_nummer or rmc_code, once the handler built it
    calls,      \* the persistence calls the handler issued
    logged,     \* the except branch printed a DB error
    resp,       \* the response returned
    rows,       \* rows committed so far
    gpc,        \* middleware: "idle", "arrived", "responded"
    greq,       \* the request the middleware is given
    gresp,      \* the response the middleware returned
    lpc,        \* module import: the statement reached
    lfile,      \* the file the loader running has read
    lresult,    \* what that loader returned
    RMZ_LISTEN,
    FUNKRUFNAMEN,
    ICD_CODES

submitVars ==
    <<pc, route, form, today, verdict, evaluated, built, calls, logged, resp, rows>>

gateVars == <<gpc, greq, gresp>>

loadVars == <<lpc, lfile, lresult, RMZ_LISTEN, FUNKRUFNAMEN, ICD_CODES>>

vars == <<submitVars, gateVars, loadVars>>

NoForm == [nk_date |-> <<>>, nk_sequence |-> <<>>]

Idle ==
    /\ pc = "idle"
    /\ route = "none"
    /\ form = NoForm
    /\ today = NoDate
    /\ verdict = "none"
    /\ evaluated = <<>>
    /\ built = <<>>
    /\ calls = <<>>
    /\ logged = FALSE
    /\ resp = NoResponse

NoRequest == [method |-> "none", path |-> <<>>, cookie |-> None, key |-> None]

GateIdle ==
    /\ gpc = "idle"
    /\ greq = NoRequest
    /\ gresp = Response(0, <<>>, None, "none")

\* The module is imported: the three lists are loaded.
Loaded ==
    /\ lpc = "imported"
    /\ lfile = File(FALSE, <<>>, 0)
    /\ lresult = <<>>
    /\ RMZ_LISTEN = <<>>
    /\ FUNKRUFNAMEN = <<Sentinel>>
    /\ ICD_CODES = <<>>

Init == Idle /\ rows = 0 /\ GateIdle /\ Loaded

Receive(path, fields, now) ==
    /\ pc = "idle"
    /\ pc' = "received"
    /\ route' = path
    /\ form' = fields
    /\ today' = now
    /\ UNCHANGED <<verdict, evaluated, built, calls, logged, resp, rows>>
    /\ UNCHANGED <<gateVars, loadVars>>

\* POST /rd/submit: the framework binds nk_date and nk_sequence.
ReceiveRd ==
    \E d \in DateInputs, s \in SequenceInputs, now \in Todays :
        Receive("/rd/submit", [nk_date |-> d, nk_sequence |-> s], now)

\* POST /leitstelle/submit
ReceiveLst ==
    \E d \in DateInputs, s \in SequenceInputs, now \in Todays :
        Receive("/leitstelle/submit", [nk_date |-> d, nk_sequence |-> s], now)

\* POST /klinik/submit
ReceiveKlinik ==
    \E a \in OrderInputs, z \in RmzInputs, ans \in AnswerInputs :
        Receive("/klinik/submit",
                [auftragsnummer |-> a, rmz |-> z, answers |-> ans], NoDate)

\* The handler ran: v its validation, p its persistence block (NoPersist when
\* it returned before), r its response.
Handled(v, ref, p, r) ==
    /\ p.committed => rows < MaxRows
    /\ pc' = "done"
    /\ verdict' = v.verdict
    /\ evaluated' = v.evaluated
    /\ built' = ref
    /\ calls' = p.calls
    /\ logged' = p.logged
    /\ resp' = r
    /\ rows' = IF p.committed THEN rows + 1 ELSE rows
    /\ UNCHANGED <<route, form, today>>
    /\ UNCHANGED <<gateVars, loadVars>>

submit_rd ==
    /\ pc = "received"
    /\ route = "/rd/submit"
    /\ LET v == submit_rd_validate(form.nk_date, form.nk_sequence, today) IN
       \E fail_at \in Outcomes(ReachesPersist(v)) :
           LET p == IF ReachesPersist(v)
                    THEN Persist("rd_feedback", <<v.nk_nummer>>, FALSE, fail_at)
                    ELSE NoPersist
           IN  Handled(v, v.nk_nummer, p,
                       IF v.verdict = "Unhandled" THEN ServerError
                       ELSE IF ~ReachesPersist(v) THEN ErrorPage("rd.html", v.verdict)
                       ELSE AfterPersist(p, "Rettungsdienst"))

submit_lst ==
    /\ pc = "received"
    /\ route = "/leitstelle/submit"
    /\ LET v == submit_lst_validate(form.nk_date, form.nk_sequence, today) IN
       \E fail_at \in Outcomes(ReachesPersist(v)) :
           LET p == IF ReachesPersist(v)
                    THEN Persist("lst_feedback", <<v.nk_nummer>>, FALSE, fail_at)
                    ELSE NoPersist
           IN  Handled(v, v.nk_nummer, p,
                       IF v.verdict = "Unhandled" THEN ServerError
                       ELSE IF ~ReachesPersist(v) THEN ErrorPage("lst.html", v.verdict)
                       ELSE AfterPersist(p, "Leitstelle"))

submit_klinik ==
    /\ pc = "received"
    /\ route = "/klinik/submit"
    /\ LET v == submit_klinik_validate(form.auftragsnummer)
           code == rmc_code(form.rmz, form.answers[1], form.answers[2],
                            form.answers[3], form.answers[4], form.answers[5],
                            form.answers[6])
           number == int(form.auftragsnummer)
       IN  \E fail_at \in Outcomes(ReachesPersist(v)) :
           LET p == IF ReachesPersist(v)
                    THEN Persist("klinik_feedback",
                                 <<number.value, form.rmz, code>>,
                                 number.raises, fail_at)
                    ELSE NoPersist
           IN  Handled(v, IF ReachesPersist(v) THEN code ELSE <<>>, p,
                       IF ~ReachesPersist(v) THEN ErrorPage("klinik.html", v.verdict)
                       ELSE AfterPersist(p, "Klinik"))

\* The framework sends the response; the next request starts from scratch.
SendResponse ==
    /\ pc = "done"
    /\ pc' = "idle"
    /\ route' = "none"
    /\ form' = NoForm
    /\ today' = NoDate
    /\ verdict' = "none"
    /\ evaluated' = <<>>
    /\ built' = <<>>
    /\ calls' = <<>>
    /\ logged' = FALSE
    /\ resp' = NoResponse
    /\ UNCHANGED rows
    /\ UNCHANGED <<gateVars, loadVars>>

Next ==
    \/ ReceiveRd
    \/ ReceiveLst
    \/ ReceiveKlinik
    \/ submit_rd
    \/ submit_lst
    \/ submit_klinik
    \/ SendResponse

Spec == Init /\ [][Next]_vars

\* ------------------------------------------------------------------------
\* The middleware in front of the routes
\* ------------------------------------------------------------------------

Methods == {"GET", "POST"}

Paths ==
    {P_root, P_rd, P_rd_submit, P_klinik_submit, P_leitstelle_submit, P_favicon,
     P_health, P_robots, P_static_css, P_staticx, P_unknown}

\* request.cookies.get("shared_secret"), request.query_params.get("key")
Tokens == {None, SHARED_SECRET, "wrong"}

GateInit == Idle /\ rows = 0 /\ GateIdle /\ Loaded

\* A client sends a request.
GateRequest ==
    /\ gpc = "idle"
    /\ \E m \in Methods, p \in Paths, c \in Tokens, k \in Tokens :
           greq' = [method |-> m, path |-> p, cookie |-> c, key |-> k]
    /\ gpc' = "arrived"
    /\ UNCHANGED <<gresp, submitVars, loadVars>>

enforce_shared_secret ==
    /\ gpc = "arrived"
    /\ gresp' = enforce_shared_secret_response(greq)
    /\ gpc' = "responded"
    /\ UNCHANGED <<greq, submitVars, loadVars>>

\* The client follows a 303 with the cookie the response set.
FollowRedirect ==
    /\ gpc = "responded"
    /\ gresp.status = 303
    /\ greq' = [method |-> "GET", path |-> gresp.location,
                cookie |-> gresp.set_cookie, key |-> None]
    /\ gpc' = "arrived"
    /\ UNCHANGED <<gresp, submitVars, loadVars>>

\* The response is delivered; the next request can come.
GateDone ==
    /\ gpc = "responded"
    /\ gpc' = "idle"
    /\ greq' = NoRequest
    /\ gresp' = Response(0, <<>>, None, "none")
    /\ UNCHANGED <<submitVars, loadVars>>

GateNext ==
    \/ GateRequest
    \/ enforce_shared_secret
    \/ FollowRedirect
    \/ GateDone

SpecGate == GateInit /\ [][GateNext]_vars

\* ------------------------------------------------------------------------
\* Module import: the three loaders run in turn
\* ------------------------------------------------------------------------

LoadInit ==
    /\ Idle /\ rows = 0 /\ GateIdle
    /\ lpc = "start"
    /\ lfile = File(FALSE, <<>>, 0)
    /\ lresult = <<>>
    /\ RMZ_LISTEN = <<>>
    /\ FUNKRUFNAMEN = <<>>
    /\ ICD_CODES = <<>>

\* A loader is called at `at` and returns: it has read `file`.
Called(at, file, result, then) ==
    /\ lpc = at
    /\ lfile' = file
    /\ lresult' = result
    /\ lpc' = then
    /\ UNCHANGED <<RMZ_LISTEN, FUNKRUFNAMEN, ICD_CODES, submitVars, gateVars>>

\* load_rmz_list()
LoadRmz ==
    \E file \in Files(RmzRows) :
        Called("start", file, load_rmz_list(file), "rmz_loaded")

\* RMZ_LISTEN = load_rmz_list()
SetRmz ==
    /\ lpc = "rmz_loaded"
    /\ RMZ_LISTEN' = lresult
    /\ lfile' = File(FALSE, <<>>, 0)
    /\ lresult' = <<>>
    /\ lpc' = "rmz_set"
    /\ UNCHANGED <<FUNKRUFNAMEN, ICD_CODES, submitVars, gateVars>>

\* load_funkrufnamen()
LoadFunkrufnamen ==
    \E file \in Files(FunkRows) :
        Called("rmz_set", file, load_funkrufnamen(file), "funk_loaded")

\* FUNKRUFNAMEN = load_funkrufnamen()
SetFunkrufnamen ==
    /\ lpc = "funk_loaded"
    /\ FUNKRUFNAMEN' = lresult
    /\ lfile' = File(FALSE, <<>>, 0)
    /\ lresult' = <<>>
    /\ lpc' = "funk_set"
    /\ UNCHANGED <<RMZ_LISTEN, ICD_CODES, submitVars, gateVars>>

\* load_icd_codes()
LoadIcd ==
    \E file \in Files(IcdLines) :
        Called("funk_set", file, load_icd_codes(file), "icd_loaded")

\* ICD_CODES = load_icd_codes()
SetIcd ==
    /\ lpc = "icd_loaded"
    /\ ICD_CODES' = lresult
    /\ lfile' = File(FALSE, <<>>, 0)
    /\ lresult' = <<>>
    /\ lpc' = "imported"
    /\ UNCHANGED <<RMZ_LISTEN, FUNKRUFNAMEN, submitVars, gateVars>>

LoadNext ==
    \/ LoadRmz
    \/ SetRmz
    \/ LoadFunkrufnamen
    \/ SetFunkrufnamen
    \/ LoadIcd
    \/ SetIcd

SpecLoad == LoadInit /\ [][LoadNext]_vars

\* ------------------------------------------------------------------------
\* Properties of the submission handlers
\* ------------------------------------------------------------------------

NkRoutes == {"/rd/submit", "/leitstelle/submit"}

NkTable == IF route = "/rd/submit" THEN "rd_feedback" ELSE "lst_feedback"

NkTemplate == IF route = "/rd/submit" THEN "rd.html" ELSE "lst.html"

Inserts == {i \in 1..Len(calls) : calls[i].op = "insert"}

\* s is n ASCII decimal digits.
DecimalDigits(s, n) == Len(s) = n /\ \A i \in 1..Len(s) : s[i] \in AsciiDigits

\* Every check of the job-reference handlers passes on (d, s, now), each check
\* taken as the handler's own test.
NkStepsPass(d, s, now) ==
    /\ Len(s) = 5 /\ isdigit(s)
    /\ Len(d) = 6 /\ isdigit(d)
    /\ ~int(SubSeq(d, 1, 2)).raises
    /\ int(SubSeq(d, 1, 2)).value >= 25
    /\ ~strptime(d).raises
    /\ ~DateAfter(strptime(d).date, now)

\* C1: a persistence call (get_db_connection first, the INSERT carrying the
\* nk_nummer or the rmc_code among them) is issued for a submission only if
\* every validation step of that submission succeeded, and a submission
\* answered with a validation error issues none.
C1_PersistOnlyAfterValidation ==
    pc = "done" =>
        /\ calls # <<>> =>
            /\ calls[1].op = "connect"
            /\ resp.error = "none"
            /\ route \in NkRoutes =>
                /\ NkStepsPass(form.nk_date, form.nk_sequence, today)
                /\ \A i \in Inserts :
                      /\ calls[i].table = NkTable
                      /\ calls[i].args = <<FormatNk(form.nk_date, form.nk_sequence)>>
            /\ route = "/klinik/submit" =>
                /\ Len(form.auftragsnummer) <= 6
                /\ isdigit(form.auftragsnummer)
                /\ \A i \in Inserts :
                      /\ calls[i].table = "klinik_feedback"
                      /\ calls[i].args[3] = built
        /\ resp.error # "none" => calls = <<>> /\ ~logged

\* A valid ambulance submission whose INSERT carried its nk_nummer.
C1_Witness ==
    /\ pc = "done"
    /\ route = "/rd/submit"
    /\ \E i \in Inserts : calls[i].args = <<built>> /\ Len(built) = 15

\* The claimed acceptance rule: five decimal digits, six decimal digits whose
\* year part is at least 25 and which name a day of the year 2000+YY that is
\* not after the current date.
ClaimedAccepts(d, s, now) ==
    /\ DecimalDigits(s, 5)
    /\ DecimalDigits(d, 6)
    /\ LET yy == DecimalValue(SubSeq(d, 1, 2))
           mm == DecimalValue(SubSeq(d, 3, 4))
           dd == DecimalValue(SubSeq(d, 5, 6))
       IN  /\ yy >= 25
           /\ mm \in 1..12
           /\ dd \in 1..DaysInMonth(2000 + yy, mm)
           /\ ~DateAfter(<<2000 + yy, mm, dd>>, now)

\* C2: a job-reference submission is accepted exactly when the claimed rule
\* accepts it, and on acceptance persistence is handed "NK " + date_str + " " +
\* sequence_str.
C2_AcceptsExactlyClaimed ==
    pc = "done" /\ route \in NkRoutes =>
        /\ verdict = "ok" <=> ClaimedAccepts(form.nk_date, form.nk_sequence, today)
        /\ verdict = "ok" =>
              /\ built = <<"N", "K", " ">> \o form.nk_date \o <<" ">> \o form.nk_sequence
              /\ \A i \in Inserts : calls[i].args = <<built>>

\* The rules a submission violates, each taken on its own.
ViolatedRules(d, s, now) ==
    LET yy == DecimalValue(SubSeq(d, 1, 2))
        mm == DecimalValue(SubSeq(d, 3, 4))
        dd == DecimalValue(SubSeq(d, 5, 6))
        dated == DecimalDigits(d, 6) /\ mm \in 1..12 /\ dd \in 1..DaysInMonth(2000 + yy, mm)
    IN  (IF DecimalDigits(s, 5) THEN {} ELSE {1})
        \cup (IF DecimalDigits(d, 6) THEN {} ELSE {2})
        \cup (IF DecimalDigits(d, 6) /\ yy < 25 THEN {3} ELSE {})
        \cup (IF dated THEN {} ELSE {4})
        \cup (IF dated /\ DateAfter(<<2000 + yy, mm, dd>>, now) THEN {5} ELSE {})

RuleErrors ==
    <<"InvalidSequence", "InvalidDateFormat", "YearTooOld", "InvalidCalendarDate",
      "FutureDate">>

RuleChecks == <<"sequence", "date_format", "year", "calendar", "future">>

First(S) == CHOOSE k \in S : \A j \in S : k <= j

\* C3: when a job-reference submission violates several rules at once, the one
\* error reported is that of the first violated rule in the order sequence
\* format, date format, year floor, calendar validity, future date, and no
\* check after that one is evaluated.
C3_FirstFailingCheckReported ==
    pc = "done" /\ route \in NkRoutes =>
        LET V == ViolatedRules(form.nk_date, form.nk_sequence, today) IN
        Cardinality(V) >= 2 =>
            /\ resp = [status |-> 200, template |-> NkTemplate,
                       error |-> RuleErrors[First(V)], source |-> "none"]
            /\ evaluated = SubSeq(RuleChecks, 1, First(V))

\* C4: a job-reference submission ends in success or in exactly one of the five
\* errors, reported on the originating form; a date_str that is not six decimal
\* digits (the sequence being well-formed) yields InvalidDateFormat; no input
\* ends in an unhandled error.
C4_EveryInputHandled ==
    pc = "done" /\ route \in NkRoutes =>
        /\ resp.status = 200
        /\ \/ resp.template = "success.html" /\ resp.error = "none"
           \/ /\ resp.template = NkTemplate
              /\ resp.error \in {RuleErrors[k] : k \in 1..5}
        /\ DecimalDigits(form.nk_sequence, 5) /\ ~DecimalDigits(form.nk_date, 6)
              => resp.error = "InvalidDateFormat"

\* C5: an order number is accepted exactly when it is at most six characters,
\* all decimal digits; otherwise the answer is InvalidOrderNumber; an accepted
\* value reaches the INSERT as its integer value (unless the collaborator fails
\* before the INSERT).
C5_OrderNumberDecimal ==
    pc = "done" /\ route = "/klinik/submit" =>
        LET a == form.auftragsnummer
            decimal == Len(a) <= 6 /\ \A i \in 1..Len(a) : a[i] \in AsciiDigits
        IN  /\ verdict = "ok" <=> decimal
            /\ verdict # "ok" => resp = ErrorPage("klinik.html", "InvalidOrderNumber")
            /\ verdict = "ok" /\ (Len(calls) >= 4 \/ ~logged) =>
                  \E i \in Inserts : calls[i].args[1] = DecimalValue(a)

\* The separator ' - ' occurs in s at index i.
SeparatorAt(s, i) ==
    i >= 1 /\ i + 2 <= Len(s) /\ s[i] = " " /\ s[i + 1] = "-" /\ s[i + 2] = " "

\* The first k characters of rmz are its zone code: what precedes the first
\* separator, or all of rmz when it holds none.
ZoneLength(rmz, k) ==
    /\ \A i \in 1..k : ~SeparatorAt(rmz, i)
    /\ k = Len(rmz) \/ SeparatorAt(rmz, k + 1)

RouteSuccess ==
    SuccessPage(CASE route = "/rd/submit" -> "Rettungsdienst"
                  [] route = "/leitstelle/submit" -> "Leitstelle"
                  [] route = "/klinik/submit" -> "Klinik")

\* C7: once validation has succeeded the response is the success page,
\* whatever the persistence collaborator does: a failure at any persistence
\* call is logged and the response stays the success page.
C7_PersistenceFailureSwallowed ==
    pc = "done" /\ verdict = "ok" =>
        /\ resp = RouteSuccess
        /\ (Len(calls) < Len(PersistSteps)) => logged

\* The INSERT of a valid dispatch-centre submission failed: logged, nothing
\* committed, success page.
C7_Witness ==
    /\ pc = "done"
    /\ route = "/leitstelle/submit"
    /\ verdict = "ok"
    /\ Len(calls) = 4
    /\ calls[4].op = "insert"
    /\ logged
    /\ rows = 0
    /\ resp.template = "success.html"

\* The validation of the other job-reference handler on the same inputs.
OtherHandlerValidate ==
    IF route = "/rd/submit"
    THEN submit_lst_validate(form.nk_date, form.nk_sequence, today)
    ELSE submit_rd_validate(form.nk_date, form.nk_sequence, today)

\* C10: on the same (nk_date, nk_sequence, current date) submit_rd and
\* submit_lst reach the same verdict and, on acceptance, build the same
\* nk_nummer; they differ in the template re-rendered and the table written.
C10_SameJobReferenceValidation ==
    pc = "done" /\ route \in NkRoutes =>
        /\ verdict = OtherHandlerValidate.verdict
        /\ built = OtherHandlerValidate.nk_nummer
        /\ evaluated = OtherHandlerValidate.evaluated
        /\ resp.error \notin {"none", "Unhandled"} => resp.template = NkTemplate
        /\ \A i \in Inserts :
              /\ calls[i].args = <<OtherHandlerValidate.nk_nummer>>
              /\ calls[i].table = NkTable

\* An ambulance submission dated today is accepted, as the dispatch-centre
\* handler would accept it.
C10_Witness ==
    /\ pc = "done"
    /\ route = "/rd/submit"
    /\ verdict = "ok"
    /\ strptime(form.nk_date).date = today
    /\ submit_lst_validate(form.nk_date, form.nk_sequence, today).verdict = "ok"

\* ------------------------------------------------------------------------
\* Properties of the middleware and of the loaders
\* ------------------------------------------------------------------------

\* The paths served without a token: the three named ones and those that
\* begin with /static.
ExemptPath(path) ==
    \/ path \in {<<"/", "f", "a", "v", "i", "c", "o", "n", ".", "i", "c", "o">>,
                 <<"/", "h", "e", "a", "l", "t", "h">>,
                 <<"/", "r", "o", "b", "o", "t", "s", ".", "t", "x", "t">>}
    \/ Len(path) >= 7 /\ SubSeq(path, 1, 7) = <<"/", "s", "t", "a", "t", "i", "c">>

ReadFailed(file) == ~file.exists \/ file.bad_at # 0

\* C9: when reading its file fails at any point, the RMZ loader and the ICD
\* loader return the empty list and the call-sign loader returns the single
\* entry MISSING/Fehlend.
C9_FailedLoadYieldsEmpty ==
    /\ lpc \in {"rmz_loaded", "icd_loaded"} /\ ReadFailed(lfile) => lresult = <<>>
    /\ lpc = "funk_loaded" /\ ReadFailed(lfile) =>
          lresult = <<[rufname |-> <<"M", "I", "S", "S", "I", "N", "G">>,
                       opta |-> <<"F", "e", "h", "l", "e", "n", "d">>]>>

====
